---- MODULE Spec2Model ----
(***************************************************************************)
(* Model of the Gem.Bot core (src/gem_bot_core): the order book kept by    *)
(* FeatureExtractor, the producer ("oracle") and subscriber ("strategist") *)
(* connection handlers of GemBotCore, the periodic processing loop and     *)
(* the broadcast to subscribers; of the forwarding loop of the oracle      *)
(* agent (src/oracle_agent), which feeds the core from its queue; and of   *)
(* the exchange connector (src/connectors) that fills that queue.          *)
(*                                                                         *)
(* The core runs on one asyncio event loop: a coroutine runs without       *)
(* interruption between two await points, so every action below is the     *)
(* code between two awaits of one coroutine.                               *)
(***************************************************************************)
EXTENDS Integers, Sequences, FiniteSets, TLC

(* ---------------------------------------------------------------------- *)
(* Bounds                                                                  *)
(* ---------------------------------------------------------------------- *)
\* entries of one book frame, both sides together
MaxEntries == 2
\* ticks of the processing loop that reach the broadcast
MaxTicks == 2
\* FeatureExtractor(max_trades=MaxTrades): the capacity of the trade history
MaxTrades == 2
\* trades of one batch
MaxBatch == 2
\* trades appended in one run
MaxAppended == 4
\* the depth sums the classifier is given: imbalance n / d with |n|, d <= MaxDepth
MaxDepth == 7
\* messages the exchange hands to the agent in one run
MaxMsgs == 4
\* connections the connector makes to the exchange in one run
MaxConnects == 3

\* the interpreter's None for last_update_ts (timestamps of the inputs are >= 0)
NoneTs == -1

Oracles == {"o1", "o2"}
Strategists == {"s1", "s2"}

(* ---------------------------------------------------------------------- *)
(* Inputs: the text of the numbers in a frame                              *)
(* ---------------------------------------------------------------------- *)
\* a token that is not the text of a number
BadTok == "x"
PriceToks == {"1", "2"}
SizeToks == {"0", "1"}
TsToks == {"1", "2"}

\* the integers whose text the inputs can carry
NumRange == -1..3

\* the texts float() and int() accept among the inputs, with their values
NumText == {ToString(n) : n \in NumRange}
ValueOf == [t \in NumText |-> CHOOSE n \in NumRange : ToString(n) = t]

\* float(tok) / int(tok) succeed exactly on the text of a number
IsNumeric(tok) == tok \in NumText

\* the value float(tok) / int(tok) returns for the text of a number
ParseNum(tok) == ValueOf[tok]

\* one [price, size] pair of a frame, and one whose size does not parse
Entries == PriceToks \X SizeToks
BadEntry == <<"1", BadTok>>

RECURSIVE SeqsUpTo(_, _)
SeqsUpTo(S, n) ==
    IF n = 0 THEN {<<>>}
    ELSE LET shorter == SeqsUpTo(S, n - 1)
         IN  shorter \cup {Append(s, e) : s \in {t \in shorter : Len(t) = n - 1}, e \in S}

NoTrades == <<>>

\* a message of a producer after json.loads: channel is arg.channel
\* ("badjson": json.loads raised), has* tell whether the key is present
BookFrame(action, hasBids, b, hasAsks, a, hasTs, ts) ==
    [channel |-> "books", action |-> action,
     hasBids |-> hasBids, bids |-> b, hasAsks |-> hasAsks, asks |-> a,
     hasTs |-> hasTs, ts |-> ts, trades |-> NoTrades]

OtherFrame(channel) ==
    [channel |-> channel, action |-> "none",
     hasBids |-> FALSE, bids |-> <<>>, hasAsks |-> FALSE, asks |-> <<>>,
     hasTs |-> FALSE, ts |-> BadTok, trades |-> NoTrades]

\* the sides of a frame whose entries all parse: MaxEntries entries in all
GoodPairs ==
    {p \in SeqsUpTo(Entries, MaxEntries) \X SeqsUpTo(Entries, MaxEntries) :
        Len(p[1]) + Len(p[2]) <= MaxEntries}

\* the sides of a frame: update_order_book reads nothing of a frame after
\* the first entry that does not parse, so such an entry comes last
SidePairs ==
    GoodPairs
    \cup {<<Append(p[1], BadEntry), <<>>>> :
            p \in {q \in GoodPairs : q[2] = <<>> /\ Len(q[1]) < MaxEntries}}
    \cup {<<p[1], Append(p[2], BadEntry)>> :
            p \in {q \in GoodPairs : Len(q[1]) + Len(q[2]) < MaxEntries}}

\* book frames: every action and sides with the first timestamp; every
\* timestamp, one that does not parse too, after at most one entry (the
\* timestamp is read after the sides, whatever they hold); then frames with
\* a required key missing (bids, asks, ts, action)
BookFrames ==
    {BookFrame(act, TRUE, p[1], TRUE, p[2], TRUE, "1") :
        act \in {"snapshot", "update"}, p \in SidePairs}
    \cup {BookFrame(act, TRUE, p[1], TRUE, p[2], TRUE, ts) :
        act \in {"snapshot", "update"},
        p \in {q \in GoodPairs : Len(q[1]) + Len(q[2]) <= 1},
        ts \in TsToks \cup {BadTok}}
    \cup {BookFrame(act, hb, <<>>, ha, <<<<"1", "1">>>>, TRUE, "1") :
        act \in {"snapshot", "update"}, hb \in BOOLEAN, ha \in BOOLEAN}
    \cup {BookFrame(act, TRUE, <<<<"1", "1">>>>, TRUE, <<>>, FALSE, BadTok) :
        act \in {"snapshot", "update"}}
    \cup {BookFrame(act, TRUE, <<>>, TRUE, <<>>, TRUE, "1") : act \in {"other", "none"}}

Frames == BookFrames \cup {OtherFrame("other"), OtherFrame("badjson")}

\* trades as the exchange sends them, and one whose price does not parse
TradeToks == {<<"1", "1", "1", "buy">>, <<"2", "2", "1", "sell">>}
BadTrade == <<"2", BadTok, "1", "buy">>

\* a message of the trade channel: data is a batch of trades
TradeFrame(batch) == [OtherFrame("trade") EXCEPT !.trades = batch]

TradeFrames == {TradeFrame(b) : b \in SeqsUpTo(TradeToks \cup {BadTrade}, MaxBatch)}

(* ---------------------------------------------------------------------- *)
(* State                                                                   *)
(* ---------------------------------------------------------------------- *)
VARIABLES
    bids,               \* FeatureExtractor.order_book['bids']: price -> size
    asks,               \* FeatureExtractor.order_book['asks']: price -> size
    last_update_ts,     \* FeatureExtractor.last_update_ts
    oracle_clients,     \* GemBotCore.oracle_clients
    strategist_clients, \* GemBotCore.strategist_clients
    conn,               \* each subscriber websocket: "absent", "open", "closed", "gone"
    hung,               \* subscribers that stopped reading: a send to them does not complete
    running,            \* GemBotCore._running
    loopPc,             \* where processing_loop stands: "start", "sleep", "gather", "done";
                        \* "exited": main() has returned and asyncio.run has ended
    sendTasks,          \* pending client.send(message) tasks of gather: <<client, message id>>
    gatherExc,          \* the gather the loop awaits has an exception set
    received,           \* message ids each subscriber got
    msgs,               \* the messages handed to broadcast_to_strategists, by id
                        \* (fromPartial: history, the book read was left by a frame
                        \* that raised part-way)
    last,               \* history: the last frame a producer handler processed
    tickRead,           \* history: what the last extract_features read
    failed,             \* history: the sends that raised
    bcast,              \* history: the last broadcast_to_strategists call
    tickOut,            \* history: how the last tick of processing_loop ended
    trades,             \* FeatureExtractor.trades: a deque(maxlen=max_trades)
    last_trade_ts,      \* FeatureExtractor.last_trade_ts
    appended,           \* history: every trade add_trade appended, in order
    clsIn,              \* the features handed to PredictionSimulator.get_prediction
    clsOut,             \* what get_prediction returned for clsIn ("": not called)
    data_queue,         \* OracleAgent.data_queue
    agentRunning,       \* OracleAgent._running
    agentPc,            \* forward_data_to_core: "connect", "get", "done"
    coreLink,           \* the agent's websocket to the core: "down", "up", "lost"
    forwarded,          \* the messages the core received from the agent, in order
    produced,           \* history: how many messages handle_exchange_message queued
    is_running,         \* BitgetDirectConnector._is_running
    connPc,             \* BitgetDirectConnector._run: "idle" (no task), "connect",
                        \* "subscribe", "consume", "sleep", "cancelled"
    exLink,             \* the connector's websocket to the exchange: "down", "up", "lost"
    subSent,            \* history: the subscription was sent on the current connection
    gotOnLink,          \* history: the callback got a message on the current connection
    connects            \* history: the connections to the exchange made so far

bookVars == <<bids, asks, last_update_ts>>
hubVars == <<strategist_clients, conn, hung, sendTasks, gatherExc, received, msgs, failed, bcast>>
loopVars == <<running, loopPc, tickRead>>
tradeVars == <<trades, last_trade_ts, appended>>
clsVars == <<clsIn, clsOut>>
agentVars == <<data_queue, agentRunning, agentPc, coreLink, forwarded, produced>>
connVars == <<is_running, connPc, exLink, subSent, gotOnLink, connects>>
vars == <<bids, asks, last_update_ts, oracle_clients, strategist_clients, conn, hung,
          running, loopPc, sendTasks, gatherExc, received, msgs, last, tickRead,
          failed, bcast, tickOut, trades, last_trade_ts, appended, clsIn, clsOut,
          data_queue, agentRunning, agentPc, coreLink, forwarded, produced,
          is_running, connPc, exLink, subSent, gotOnLink, connects>>

EmptySide == [p \in {} |-> 0]

Book(b, a, ts) == [bids |-> b, asks |-> a, ts |-> ts]

(* ---------------------------------------------------------------------- *)
(* FeatureExtractor.update_order_book                                      *)
(* ---------------------------------------------------------------------- *)
\* side[price] = size
Put(side, p, s) == [q \in (DOMAIN side) \cup {p} |-> IF q = p THEN s ELSE side[q]]

\* del side[price]
Del(side, p) == [q \in (DOMAIN side) \ {p} |-> side[q]]

\* float(price), float(size) of one entry both succeed
EntryOk(e) == IsNumeric(e[1]) /\ IsNumeric(e[2])

AllOk(entries) == \A i \in 1..Len(entries) : EntryOk(entries[i])

\* {float(price): float(size) for price, size in entries}: a later entry of
\* the same price overwrites the earlier one
RECURSIVE DictOf(_)
DictOf(entries) ==
    IF entries = <<>> THEN EmptySide
    ELSE LET n == Len(entries)
             e == entries[n]
         IN  Put(DictOf(SubSeq(entries, 1, n - 1)), ParseNum(e[1]), ParseNum(e[2]))

\* a plausible slip: the snapshot is merged into the levels already stored
SnapshotMerge(old, new) ==
    [q \in (DOMAIN old) \cup (DOMAIN new) |-> IF q \in DOMAIN new THEN new[q] ELSE old[q]]

\* self.order_book[side] = {...}: the assignment drops the old dict
SnapshotAssign(old, new) == new

\* a plausible slip: del without the membership test (KeyError when absent);
\* the level is kept with size 0 instead
UpdateEntryNoDelete(side, p, s) == Put(side, p, s)

\* the body of the update loop for one parsed entry
UpdateEntry(side, p, s) ==
    IF s = 0
    THEN IF p \in DOMAIN side THEN Del(side, p) ELSE side
    ELSE Put(side, p, s)

\* the update loop over one side: stops at the first entry that does not
\* parse, with the entries before it applied
RECURSIVE UpdateSide(_, _)
UpdateSide(side, entries) ==
    IF entries = <<>> THEN [side |-> side, ok |-> TRUE]
    ELSE LET e == Head(entries)
         IN  IF ~EntryOk(e) THEN [side |-> side, ok |-> FALSE]
             ELSE UpdateSide(UpdateEntry(side, ParseNum(e[1]), ParseNum(e[2])), Tail(entries))

Raised(book) == [bids |-> book.bids, asks |-> book.asks, ts |-> book.ts, ok |-> FALSE]
Returned(book) == [bids |-> book.bids, asks |-> book.asks, ts |-> book.ts, ok |-> TRUE]

\* lines 27-30: both dict comprehensions, each assigned when it was built in full
ApplySnapshot(book, data) ==
    IF ~data.hasBids \/ ~AllOk(data.bids) THEN Raised(book)
    ELSE LET b1 == [book EXCEPT !.bids = SnapshotAssign(book.bids, DictOf(data.bids))]
         IN  IF ~data.hasAsks \/ ~AllOk(data.asks) THEN Raised(b1)
             ELSE Returned([b1 EXCEPT !.asks = SnapshotAssign(book.asks, DictOf(data.asks))])

\* lines 31-40: bids first, then asks, entry by entry in place
ApplyUpdate(book, data) ==
    IF ~data.hasBids THEN Raised(book)
    ELSE LET rb == UpdateSide(book.bids, data.bids)
             b1 == [book EXCEPT !.bids = rb.side]
         IN  IF ~rb.ok \/ ~data.hasAsks THEN Raised(b1)
             ELSE LET ra == UpdateSide(book.asks, data.asks)
                      b2 == [b1 EXCEPT !.asks = ra.side]
                  IN  IF ra.ok THEN Returned(b2) ELSE Raised(b2)

\* update_order_book(data) on the book: the book it leaves and whether it
\* returned (ok) or raised
update_order_book(book, data) ==
    IF data.action = "none" THEN Raised(book)
    ELSE LET sides == CASE data.action = "snapshot" -> ApplySnapshot(book, data)
                        [] data.action = "update" -> ApplyUpdate(book, data)
                        [] OTHER -> Returned(book)
         IN  IF ~sides.ok THEN sides
             ELSE IF ~data.hasTs \/ ~IsNumeric(data.ts) THEN Raised(sides)
             ELSE [sides EXCEPT !.ts = ParseNum(data.ts)]

(* ---------------------------------------------------------------------- *)
(* FeatureExtractor.add_trade                                              *)
(* ---------------------------------------------------------------------- *)
\* one trade of a batch is [ts, price, size, side]; the unpacking raises on
\* another length, int() / float() on a text that is no number
TradeOk(t) == Len(t) = 4 /\ IsNumeric(t[1]) /\ IsNumeric(t[2]) /\ IsNumeric(t[3])

\* the dict add_trade stores for a trade
StoredTrade(t) ==
    [ts |-> ParseNum(t[1]), price |-> ParseNum(t[2]), size |-> ParseNum(t[3]), side |-> t[4]]

\* a plausible slip: a full history refuses the new trade
DequeAppendKeepOld(q, x) == IF Len(q) < MaxTrades THEN Append(q, x) ELSE q

\* deque(maxlen=MaxTrades).append: a full deque drops its oldest element
DequeAppend(q, x) == IF Len(q) < MaxTrades THEN Append(q, x) ELSE Append(Tail(q), x)

\* the for loop of add_trade: it stops at the first trade that raises, the
\* trades before it stay appended
RECURSIVE AddTrades(_, _, _)
AddTrades(q, new, batch) ==
    IF batch = <<>> THEN [trades |-> q, new |-> new, ok |-> TRUE]
    ELSE IF ~TradeOk(Head(batch)) THEN [trades |-> q, new |-> new, ok |-> FALSE]
    ELSE AddTrades(DequeAppend(q, StoredTrade(Head(batch))),
                   Append(new, StoredTrade(Head(batch))), Tail(batch))

\* add_trade(data) on the history q and last_trade_ts lts: the history and
\* the timestamp it leaves, the trades it appended, whether it returned
add_trade(q, lts, batch) ==
    LET r == AddTrades(q, <<>>, batch)
    IN  [trades |-> r.trades, new |-> r.new, ok |-> r.ok,
         ts |-> IF r.ok /\ batch # <<>> THEN ParseNum(batch[Len(batch)][1]) ELSE lts]

(* ---------------------------------------------------------------------- *)
(* FeatureExtractor.extract_features, PredictionSimulator.get_prediction   *)
(* ---------------------------------------------------------------------- *)
\* levels summed for the book imbalance
DepthLevels == 5
\* imbalance_threshold = 0.2 = ThresholdNum / ThresholdDen
ThresholdNum == 1
ThresholdDen == 5

MaxOf(S) == CHOOSE x \in S : \A y \in S : y <= x
MinOf(S) == CHOOSE x \in S : \A y \in S : x <= y

\* sum of the sizes of the n best levels of a side (best = highest price when
\* desc, lowest otherwise): sorted(...)[:n]
RECURSIVE DepthOf(_, _, _)
DepthOf(side, n, desc) ==
    IF n = 0 \/ DOMAIN side = {} THEN 0
    ELSE LET p == IF desc THEN MaxOf(DOMAIN side) ELSE MinOf(DOMAIN side)
         IN  side[p] + DepthOf(Del(side, p), n - 1, desc)

NoFeatures(kind) ==
    [kind |-> kind, best_bid |-> 0, best_ask |-> 0, spread |-> 0, midNum |-> 0,
     wapNum |-> 0, wapDen |-> 1, imbNum |-> 0, imbDen |-> 1, ts |-> NoneTs]

\* the features of the book; kind "none": returned None, "raise": the division
\* of line 81 raised ZeroDivisionError, "ok": the dict of lines 94-105.
\* Ratios are kept as numerator and denominator (mid_price = midNum / 2).
extract_features(b, a, ts) ==
    IF DOMAIN b = {} \/ DOMAIN a = {} THEN NoFeatures("none")
    ELSE LET bp == MaxOf(DOMAIN b)
             ap == MinOf(DOMAIN a)
             bd == DepthOf(b, DepthLevels, TRUE)
             ad == DepthOf(a, DepthLevels, FALSE)
         IN  IF b[bp] + a[ap] = 0 THEN NoFeatures("raise")
             ELSE [kind |-> "ok", best_bid |-> bp, best_ask |-> ap,
                   spread |-> ap - bp, midNum |-> ap + bp,
                   wapNum |-> bp * a[ap] + ap * b[bp], wapDen |-> b[bp] + a[ap],
                   imbNum |-> IF bd + ad > 0 THEN bd - ad ELSE 0,
                   imbDen |-> IF bd + ad > 0 THEN bd + ad ELSE 1,
                   ts |-> ts]

\* a plausible slip: the thresholds are inclusive
get_prediction_inclusive(f) ==
    IF f.kind # "ok" THEN "HOLD"
    ELSE IF f.imbNum * ThresholdDen >= ThresholdNum * f.imbDen THEN "BUY"
    ELSE IF f.imbNum * ThresholdDen <= -(ThresholdNum * f.imbDen) THEN "SELL"
    ELSE "HOLD"

\* get_prediction(features) for features that are None or a dict. The
\* imbalance is the quotient of two small integers: the float comparison
\* with 0.2 agrees with the comparison of the fractions
get_prediction(f) ==
    IF f.kind # "ok" THEN "HOLD"
    ELSE IF f.imbNum * ThresholdDen > ThresholdNum * f.imbDen THEN "BUY"
    ELSE IF f.imbNum * ThresholdDen < -(ThresholdNum * f.imbDen) THEN "SELL"
    ELSE "HOLD"

(* ---------------------------------------------------------------------- *)
(* Initial state: GemBotCore() constructed, nothing connected              *)
(* ---------------------------------------------------------------------- *)
\* last.op: "snapshot" or "update" for a book frame of that action, "other"
\* for every other message;
\* last.ok: its handling returned; last.partial: it raised after it had
\* changed the book;
\* last.nonPos: the frame was a book frame naming a level of size <= 0
NoLast == [op |-> "none", ok |-> TRUE, partial |-> FALSE, nonPos |-> FALSE]
NoBcast == [msg |-> 0, targets |-> {}, outcome |-> "none"]

\* tickOut.kind: "skip" (no features, line 96), "raise" (an exception caught
\* at line 112 before the broadcast), "handed" (broadcast_to_strategists was
\* called with one message); tickOut.both: both sides held a level;
\* tickOut.afterStop: the ticks so far that ran with _running already False
NoTick == [kind |-> "none", both |-> FALSE, afterStop |-> 0]

\* OracleAgent.__init__ : an empty queue, no connection to the core yet
AgentConstructed ==
    /\ data_queue = <<>>
    /\ agentRunning = TRUE
    /\ agentPc = "connect"
    /\ coreLink = "down"
    /\ forwarded = <<>>
    /\ produced = 0

\* BitgetDirectConnector.__init__ : not started, no websocket
ConnectorConstructed ==
    /\ is_running = FALSE
    /\ connPc = "idle"
    /\ exLink = "down"
    /\ subSent = FALSE
    /\ gotOnLink = FALSE
    /\ connects = 0

\* FeatureExtractor.__init__ for the trade history, no tick yet
TradesConstructed ==
    /\ trades = <<>>
    /\ last_trade_ts = NoneTs
    /\ appended = <<>>
    /\ tickOut = NoTick

\* get_prediction has not been called
ClassifierIdle ==
    /\ clsIn = NoFeatures("none")
    /\ clsOut = ""

\* GemBotCore.__init__ and the FeatureExtractor it builds
CoreConstructed ==
    /\ bids = EmptySide
    /\ asks = EmptySide
    /\ last_update_ts = NoneTs
    /\ oracle_clients = {}
    /\ strategist_clients = {}
    /\ conn = [c \in Strategists |-> "absent"]
    /\ hung = {}
    /\ running = TRUE
    /\ loopPc = "start"
    /\ sendTasks = {}
    /\ gatherExc = FALSE
    /\ received = [c \in Strategists |-> {}]
    /\ msgs = <<>>
    /\ last = NoLast
    /\ tickRead = "none"
    /\ failed = {}
    /\ bcast = NoBcast

Init ==
    /\ CoreConstructed
    /\ TradesConstructed
    /\ AgentConstructed
    /\ ConnectorConstructed
    /\ ClassifierIdle

(* ---------------------------------------------------------------------- *)
(* GemBotCore.handle_oracle_connection                                     *)
(* ---------------------------------------------------------------------- *)
\* a producer connects: line 39
OracleConnect(c) ==
    /\ loopPc \notin {"done", "exited"}
    /\ c \notin oracle_clients
    /\ oracle_clients' = oracle_clients \cup {c}
    /\ UNCHANGED <<bookVars, hubVars, loopVars, last>>
    /\ UNCHANGED <<tickOut, tradeVars, clsVars, agentVars, connVars>>

\* a book frame names a level of size <= 0
HasNonPositive(f) ==
    /\ f.channel = "books"
    /\ \/ \E i \in 1..Len(f.bids) : EntryOk(f.bids[i]) /\ ParseNum(f.bids[i][2]) <= 0
       \/ \E i \in 1..Len(f.asks) : EntryOk(f.asks[i]) /\ ParseNum(f.asks[i][2]) <= 0

\* one message of a producer, lines 43-57: parsed, routed by channel, every
\* exception caught and logged
OracleMessage(c, f) ==
    /\ c \in oracle_clients
    /\ \E pre \in {Book(bids, asks, last_update_ts)} :
       \E r \in {IF f.channel = "books" THEN update_order_book(pre, f)
                ELSE IF f.channel = "badjson" THEN Raised(pre)
                ELSE Returned(pre)} :
       \E t \in {IF f.channel = "trade" THEN add_trade(trades, last_trade_ts, f.trades)
                ELSE add_trade(trades, last_trade_ts, NoTrades)} :
           /\ Len(appended) + Len(t.new) <= MaxAppended
           /\ bids' = r.bids
           /\ asks' = r.asks
           /\ last_update_ts' = r.ts
           /\ trades' = t.trades
           /\ last_trade_ts' = t.ts
           /\ appended' = appended \o t.new
           /\ last' = [op |-> IF f.channel = "books" /\ f.action \in {"snapshot", "update"}
                               THEN f.action ELSE "other",
                       ok |-> r.ok /\ t.ok,
                       partial |-> ~r.ok /\ Book(r.bids, r.asks, r.ts) # pre,
                       nonPos |-> HasNonPositive(f)]
    /\ UNCHANGED <<oracle_clients, hubVars, loopVars>>
    /\ UNCHANGED <<tickOut, clsVars, agentVars, connVars>>

\* a plausible slip: the loss of one producer clears the set
UnregisterAll(clients, c) == {}

\* oracle_clients.remove(websocket) in the finally of the handler
Unregister(clients, c) == clients \ {c}

\* the producer's connection ends: the async for ends or raises
\* ConnectionClosed, line 61 runs
OracleClose(c) ==
    /\ c \in oracle_clients
    /\ oracle_clients' = Unregister(oracle_clients, c)
    /\ UNCHANGED <<bookVars, hubVars, loopVars, last>>
    /\ UNCHANGED <<tickOut, tradeVars, clsVars, agentVars, connVars>>

(* ---------------------------------------------------------------------- *)
(* GemBotCore.handle_strategist_connection                                 *)
(* ---------------------------------------------------------------------- *)
\* a subscriber connects: line 65
StrategistConnect(c) ==
    /\ loopPc \notin {"done", "exited"}
    /\ conn[c] = "absent"
    /\ conn' = [conn EXCEPT ![c] = "open"]
    /\ strategist_clients' = strategist_clients \cup {c}
    /\ UNCHANGED <<bookVars, oracle_clients, hung, sendTasks, gatherExc, received, msgs,
                   failed, bcast, loopVars, last>>
    /\ UNCHANGED <<tickOut, tradeVars, clsVars, agentVars, connVars>>

\* the subscriber stops reading: its connection stays open
StrategistHangs(c) ==
    /\ conn[c] = "open"
    /\ c \notin hung
    /\ hung' = hung \cup {c}
    /\ UNCHANGED <<bookVars, oracle_clients, strategist_clients, conn, sendTasks,
                   gatherExc, received, msgs, failed, bcast, loopVars, last>>
    /\ UNCHANGED <<tickOut, tradeVars, clsVars, agentVars, connVars>>

\* the subscriber's connection closes; the handler still waits in wait_closed
StrategistCloses(c) ==
    /\ conn[c] = "open"
    /\ conn' = [conn EXCEPT ![c] = "closed"]
    /\ UNCHANGED <<bookVars, oracle_clients, strategist_clients, hung, sendTasks,
                   gatherExc, received, msgs, failed, bcast, loopVars, last>>
    /\ UNCHANGED <<tickOut, tradeVars, clsVars, agentVars, connVars>>

\* a plausible slip: the handler ends without the remove
KeepSubscribed(clients, c) == clients

\* strategist_clients.remove(websocket) in the finally of the handler
Unsubscribe(clients, c) == clients \ {c}

\* wait_closed returns in the handler: line 73
StrategistHandlerExit(c) ==
    /\ conn[c] = "closed"
    /\ conn' = [conn EXCEPT ![c] = "gone"]
    /\ strategist_clients' = Unsubscribe(strategist_clients, c)
    /\ UNCHANGED <<bookVars, oracle_clients, hung, sendTasks, gatherExc, received, msgs,
                   failed, bcast, loopVars, last>>
    /\ UNCHANGED <<tickOut, tradeVars, clsVars, agentVars, connVars>>

(* ---------------------------------------------------------------------- *)
(* GemBotCore.processing_loop and broadcast_to_strategists                 *)
(* ---------------------------------------------------------------------- *)
\* a plausible slip: the loop does not test the flag
WhileTrue == "sleep"

\* the test of the while loop, then the sleep or the end of the coroutine
WhileCheck == IF running THEN "sleep" ELSE "done"

\* start(): the task of processing_loop runs to its first sleep
StartLoop ==
    /\ loopPc = "start"
    /\ loopPc' = WhileCheck
    /\ UNCHANGED <<bookVars, oracle_clients, hubVars, running, tickRead, last>>
    /\ UNCHANGED <<tickOut, tradeVars, clsVars, agentVars, connVars>>

\* the sleep ends: lines 91-113 up to the await of gather, or to the next
\* sleep when nothing is awaited (no features, an exception, no subscribers)
Tick ==
    /\ loopPc = "sleep"
    /\ LET f == extract_features(bids, asks, last_update_ts)
           sends == f.kind = "ok" /\ strategist_clients # {}
           m == Len(msgs) + 1
       IN  /\ sends => Len(msgs) < MaxTicks
           /\ tickRead' = IF last.partial THEN "partial" ELSE "whole"
           /\ tickOut' = [kind |-> CASE f.kind = "none" -> "skip"
                                     [] f.kind = "raise" -> "raise"
                                     [] OTHER -> "handed",
                           both |-> DOMAIN bids # {} /\ DOMAIN asks # {},
                           afterStop |-> tickOut.afterStop + (IF running THEN 0 ELSE 1)]
           /\ IF sends
              THEN /\ msgs' = Append(msgs, [features |-> f, prediction |-> get_prediction(f),
                                            targets |-> strategist_clients,
                                            fromPartial |-> last.partial])
                   /\ sendTasks' = sendTasks \cup {<<c, m>> : c \in strategist_clients}
                   /\ gatherExc' = FALSE
                   /\ bcast' = [msg |-> m, targets |-> strategist_clients,
                                outcome |-> "pending"]
                   /\ loopPc' = "gather"
              ELSE /\ loopPc' = WhileCheck
                   /\ UNCHANGED <<msgs, sendTasks, gatherExc, bcast>>
    /\ UNCHANGED <<bookVars, oracle_clients, strategist_clients, conn, hung, received,
                   failed, running, last>>
    /\ UNCHANGED <<tradeVars, clsVars, agentVars, connVars>>

\* a plausible slip: the first failure cancels the sends still pending for
\* the same message
CancelSiblings(tasks, c, m) == {t \in tasks : t[2] # m}

\* gather without return_exceptions: a child that raised is done, the other
\* children keep running
AfterSendFailure(tasks, c, m) == tasks \ {<<c, m>>}

\* one client.send(message) task of gather runs: it raises ConnectionClosed on
\* a closed connection, delivers on an open one, and does not complete while
\* the subscriber does not read
SendStep(c, m) ==
    /\ <<c, m>> \in sendTasks
    /\ ~(conn[c] = "open" /\ c \in hung)
    /\ IF conn[c] = "open"
       THEN /\ received' = [received EXCEPT ![c] = @ \cup {m}]
            /\ sendTasks' = sendTasks \ {<<c, m>>}
            /\ UNCHANGED <<failed, gatherExc>>
       ELSE /\ failed' = failed \cup {<<c, m>>}
            /\ sendTasks' = AfterSendFailure(sendTasks, c, m)
            /\ gatherExc' = (gatherExc \/ (loopPc = "gather" /\ m = Len(msgs)))
            /\ UNCHANGED received
    /\ UNCHANGED <<bookVars, oracle_clients, strategist_clients, conn, hung, msgs, bcast,
                   loopVars, last>>
    /\ UNCHANGED <<tickOut, tradeVars, clsVars, agentVars, connVars>>

\* the await of gather ends: with the first exception of a child (caught at
\* line 112), or with every child done (line 110); then the while test
GatherDone ==
    /\ loopPc = "gather"
    /\ gatherExc \/ \A t \in sendTasks : t[2] # Len(msgs)
    /\ bcast' = [bcast EXCEPT !.outcome = IF gatherExc THEN "raised" ELSE "returned"]
    /\ gatherExc' = FALSE
    /\ loopPc' = WhileCheck
    /\ UNCHANGED <<bookVars, oracle_clients, strategist_clients, conn, hung, sendTasks,
                   received, msgs, failed, running, tickRead, last>>
    /\ UNCHANGED <<tickOut, tradeVars, clsVars, agentVars, connVars>>

\* GemBotCore.stop
Stop ==
    /\ running
    /\ running' = FALSE
    /\ UNCHANGED <<bookVars, oracle_clients, hubVars, loopPc, tickRead, last>>
    /\ UNCHANGED <<tickOut, tradeVars, clsVars, agentVars, connVars>>

\* the call of get_prediction at line 99 of processing_loop, alone
Classify ==
    /\ clsOut = ""
    /\ clsOut' = get_prediction(clsIn)
    /\ UNCHANGED <<bookVars, oracle_clients, hubVars, loopVars, last, tickOut, tradeVars,
                   clsIn, agentVars, connVars>>

\* the task of processing_loop is done: gather and start() return, main()
\* calls stop() in its finally and returns, asyncio.run cancels the tasks
\* that are left (the connection handlers run their finally, the pending
\* sends are dropped) and closes the event loop and with it every socket.
\* No connection is accepted once the loop task is done.
Teardown ==
    /\ loopPc = "done"
    /\ loopPc' = "exited"
    /\ running' = FALSE
    /\ oracle_clients' = {}
    /\ strategist_clients' = {}
    /\ conn' = [c \in Strategists |-> IF conn[c] = "absent" THEN "absent" ELSE "gone"]
    /\ sendTasks' = {}
    /\ UNCHANGED <<bookVars, hung, gatherExc, received, msgs, failed, bcast, tickRead, last>>
    /\ UNCHANGED <<tickOut, tradeVars, clsVars, agentVars, connVars>>

(* ---------------------------------------------------------------------- *)
(* OracleAgent (src/oracle_agent/main.py)                                  *)
(* ---------------------------------------------------------------------- *)
\* the None that stop() queues; the messages of the exchange are 1, 2, ...
NoneMsg == 0

\* handle_exchange_message: the connector's callback queues the message
HandleExchangeMessage ==
    /\ agentRunning
    /\ produced < MaxMsgs
    /\ produced' = produced + 1
    /\ data_queue' = Append(data_queue, produced + 1)
    /\ UNCHANGED <<agentRunning, agentPc, coreLink, forwarded>>
    /\ UNCHANGED <<bookVars, oracle_clients, hubVars, loopVars, last, tickOut, tradeVars,
                   clsVars, connVars>>

\* the test of the outer while of forward_data_to_core, then
\* websockets.connect succeeds (a refused connection sleeps and comes back
\* here), or the coroutine ends
AgentConnect ==
    /\ agentPc = "connect"
    /\ IF agentRunning
       THEN agentPc' = "get" /\ coreLink' = "up"
       ELSE agentPc' = "done" /\ UNCHANGED coreLink
    /\ UNCHANGED <<data_queue, agentRunning, forwarded, produced>>
    /\ UNCHANGED <<bookVars, oracle_clients, hubVars, loopVars, last, tickOut, tradeVars,
                   clsVars, connVars>>

\* the connection to the core closes under the agent
CoreLinkLost ==
    /\ coreLink = "up"
    /\ coreLink' = "lost"
    /\ UNCHANGED <<data_queue, agentRunning, agentPc, forwarded, produced>>
    /\ UNCHANGED <<bookVars, oracle_clients, hubVars, loopVars, last, tickOut, tradeVars,
                   clsVars, connVars>>

\* data_queue.get() returns, lines 53-64 and the test of the inner while:
\* None breaks; a message is sent, or send raises ConnectionClosed and the
\* loop breaks to reconnect with the message already taken off the queue
ForwardOne ==
    /\ agentPc = "get"
    /\ data_queue # <<>>
    /\ data_queue' = Tail(data_queue)
    /\ IF Head(data_queue) # NoneMsg /\ coreLink = "up"
       THEN /\ forwarded' = Append(forwarded, Head(data_queue))
            /\ IF agentRunning
               THEN UNCHANGED <<agentPc, coreLink>>
               ELSE agentPc' = "connect" /\ coreLink' = "down"
       ELSE /\ agentPc' = "connect"
            /\ coreLink' = "down"
            /\ UNCHANGED forwarded
    /\ UNCHANGED <<agentRunning, produced>>
    /\ UNCHANGED <<bookVars, oracle_clients, hubVars, loopVars, last, tickOut, tradeVars,
                   clsVars, connVars>>

\* OracleAgent.stop: the flag, then None on the queue
AgentStop ==
    /\ agentRunning
    /\ agentRunning' = FALSE
    /\ data_queue' = Append(data_queue, NoneMsg)
    /\ UNCHANGED <<agentPc, coreLink, forwarded, produced>>
    /\ UNCHANGED <<bookVars, oracle_clients, hubVars, loopVars, last, tickOut, tradeVars,
                   clsVars, connVars>>

(* ---------------------------------------------------------------------- *)
(* BitgetDirectConnector (src/connectors/bitget_direct_connector.py)       *)
(* ---------------------------------------------------------------------- *)
\* The agent builds its connector with two channels and one symbol
\* (oracle_agent/main.py 25-29): subscription_args is not empty and
\* _subscribe sends. Between two actions the task of _run stands at an
\* await.

\* a plausible slip: the consumer is started without the subscription
ConsumeAfterConnect == "consume"

\* _run after websockets.connect returned: line 44 comes before line 46
AfterConnect == "subscribe"

\* start(): the flag, then the task of _run up to websockets.connect
ConnectorStart ==
    /\ ~is_running
    /\ is_running' = TRUE
    /\ connPc' = "connect"
    /\ UNCHANGED <<exLink, subSent, gotOnLink, connects>>
    /\ UNCHANGED <<bookVars, oracle_clients, hubVars, loopVars, last, tickOut, tradeVars,
                   clsVars, agentVars>>

\* websockets.connect returns a connection: lines 41-43
ConnectorConnect ==
    /\ connPc = "connect"
    /\ connects < MaxConnects
    /\ connects' = connects + 1
    /\ exLink' = "up"
    /\ subSent' = FALSE
    /\ gotOnLink' = FALSE
    /\ connPc' = AfterConnect
    /\ UNCHANGED is_running
    /\ UNCHANGED <<bookVars, oracle_clients, hubVars, loopVars, last, tickOut, tradeVars,
                   clsVars, agentVars>>

\* websockets.connect raises: the except of line 58 or 60, then line 63
ConnectorConnectFails ==
    /\ connPc = "connect"
    /\ connPc' = "sleep"
    /\ UNCHANGED <<is_running, exLink, subSent, gotOnLink, connects>>
    /\ UNCHANGED <<bookVars, oracle_clients, hubVars, loopVars, last, tickOut, tradeVars,
                   clsVars, agentVars>>

\* the exchange or the network closes the connection under the connector
ExchangeLinkLost ==
    /\ exLink = "up"
    /\ exLink' = "lost"
    /\ UNCHANGED <<is_running, connPc, subSent, gotOnLink, connects>>
    /\ UNCHANGED <<bookVars, oracle_clients, hubVars, loopVars, last, tickOut, tradeVars,
                   clsVars, agentVars>>

\* _subscribe: the send of line 75, then the two tasks of lines 46-47 and
\* the wait; on a closed connection the send raises ConnectionClosed, the
\* async with is left and line 58 catches it
ConnectorSubscribe ==
    /\ connPc = "subscribe"
    /\ IF exLink = "up"
       THEN subSent' = TRUE /\ connPc' = "consume" /\ UNCHANGED exLink
       ELSE connPc' = "sleep" /\ exLink' = "down" /\ UNCHANGED subSent
    /\ UNCHANGED <<is_running, gotOnLink, connects>>
    /\ UNCHANGED <<bookVars, oracle_clients, hubVars, loopVars, last, tickOut, tradeVars,
                   clsVars, agentVars>>

\* _message_consumer, line 84: a message of the exchange is passed to the
\* callback, the agent's handle_exchange_message (a "pong" is skipped and
\* changes nothing)
ConnectorDeliver ==
    /\ connPc = "consume"
    /\ exLink = "up"
    /\ produced < MaxMsgs
    /\ produced' = produced + 1
    /\ data_queue' = Append(data_queue, produced + 1)
    /\ gotOnLink' = TRUE
    /\ UNCHANGED <<is_running, connPc, exLink, subSent, connects>>
    /\ UNCHANGED <<agentRunning, agentPc, coreLink, forwarded>>
    /\ UNCHANGED <<bookVars, oracle_clients, hubVars, loopVars, last, tickOut, tradeVars,
                   clsVars>>

\* the connection is closed: the consumer ends (line 85), the wait of line
\* 50 returns, the pinger is cancelled, the async with is left, line 63
ConnectorLossSeen ==
    /\ connPc = "consume"
    /\ exLink = "lost"
    /\ exLink' = "down"
    /\ connPc' = "sleep"
    /\ UNCHANGED <<is_running, subSent, gotOnLink, connects>>
    /\ UNCHANGED <<bookVars, oracle_clients, hubVars, loopVars, last, tickOut, tradeVars,
                   clsVars, agentVars>>

\* the sleep of line 64 ends, the while test of line 38 (stop() cancels the
\* task, so the flag is True whenever the task runs)
ConnectorWake ==
    /\ connPc = "sleep"
    /\ connPc' = "connect"
    /\ UNCHANGED <<is_running, exLink, subSent, gotOnLink, connects>>
    /\ UNCHANGED <<bookVars, oracle_clients, hubVars, loopVars, last, tickOut, tradeVars,
                   clsVars, agentVars>>

\* stop(): the flag, and the task of _run is cancelled at its await: an
\* open connection is closed by the async with
ConnectorStop ==
    /\ is_running
    /\ is_running' = FALSE
    /\ connPc' = "cancelled"
    /\ exLink' = "down"
    /\ UNCHANGED <<subSent, gotOnLink, connects>>
    /\ UNCHANGED <<bookVars, oracle_clients, hubVars, loopVars, last, tickOut, tradeVars,
                   clsVars, agentVars>>

(* ---------------------------------------------------------------------- *)
(* Specifications                                                          *)
(* ---------------------------------------------------------------------- *)
\* SpecBook: the order book under every frame of Frames, sent over one
\* producer connection that connects and closes at will
BookOracles == {"o1"}

NextBook ==
    \/ \E c \in BookOracles : OracleConnect(c)
    \/ \E c \in BookOracles, f \in Frames : OracleMessage(c, f)
    \/ \E c \in BookOracles : OracleClose(c)

SpecBook == Init /\ [][NextBook]_vars

\* the frames the producers send in SpecLoop: a snapshot, an update that
\* raises at its asks after its bids were applied, a snapshot of zero sizes,
\* a snapshot with a negative size, a message that is no JSON
CoreFrames ==
    { BookFrame("snapshot", TRUE, <<<<"1", "1">>>>, TRUE, <<<<"2", "1">>>>, TRUE, "1"),
      BookFrame("update", TRUE, <<<<"1", "0">>>>, TRUE, <<<<"1", BadTok>>>>, TRUE, "2"),
      BookFrame("snapshot", TRUE, <<<<"1", "0">>>>, TRUE, <<<<"2", "0">>>>, TRUE, "2"),
      BookFrame("snapshot", TRUE, <<<<"1", "2">>>>, TRUE, <<<<"2", "-1">>>>, TRUE, "2"),
      OtherFrame("badjson") }

\* SpecLoop: the producers and the processing loop, no subscriber connected
NextLoop ==
    \/ \E c \in Oracles : OracleConnect(c)
    \/ \E c \in Oracles, f \in CoreFrames : OracleMessage(c, f)
    \/ \E c \in Oracles : OracleClose(c)
    \/ StartLoop
    \/ Tick
    \/ Stop
    \/ Teardown

SpecLoop == Init /\ [][NextLoop]_vars

\* SpecHub: the subscribers, the processing loop and the broadcast, from the
\* state in which a producer has delivered the first frame of CoreFrames and
\* left (SpecLoop reaches it: HubBookReached)
InitHub ==
    /\ TradesConstructed
    /\ AgentConstructed
    /\ ConnectorConstructed
    /\ ClassifierIdle
    /\ bids = DictOf(<<<<"1", "1">>>>)
    /\ asks = DictOf(<<<<"2", "1">>>>)
    /\ last_update_ts = 1
    /\ oracle_clients = {}
    /\ strategist_clients = {}
    /\ conn = [c \in Strategists |-> "absent"]
    /\ hung = {}
    /\ running = TRUE
    /\ loopPc = "start"
    /\ sendTasks = {}
    /\ gatherExc = FALSE
    /\ received = [c \in Strategists |-> {}]
    /\ msgs = <<>>
    /\ last = [op |-> "snapshot", ok |-> TRUE, partial |-> FALSE, nonPos |-> FALSE]
    /\ tickRead = "none"
    /\ failed = {}
    /\ bcast = NoBcast

NextHub ==
    \/ \E c \in Strategists : StrategistConnect(c)
    \/ \E c \in Strategists : StrategistHangs(c)
    \/ \E c \in Strategists : StrategistCloses(c)
    \/ \E c \in Strategists : StrategistHandlerExit(c)
    \/ StartLoop
    \/ Tick
    \/ \E c \in Strategists, m \in 1..MaxTicks : SendStep(c, m)
    \/ GatherDone
    \/ Stop
    \/ Teardown

SpecHub == InitHub /\ [][NextHub]_vars

\* the event loop runs every coroutine that is ready: the processing loop
\* and the send tasks; subscribers and stop() are the environment
FairHub ==
    /\ SpecHub
    /\ WF_vars(StartLoop)
    /\ WF_vars(Tick)
    /\ WF_vars(GatherDone)
    /\ WF_vars(Teardown)
    /\ \A c \in Strategists, m \in 1..MaxTicks : WF_vars(SendStep(c, m))

\* the initial state of SpecHub without its history variables
HubBookReached ==
    /\ bids = DictOf(<<<<"1", "1">>>>)
    /\ asks = DictOf(<<<<"2", "1">>>>)
    /\ last_update_ts = 1
    /\ oracle_clients = {}
    /\ last = [op |-> "snapshot", ok |-> TRUE, partial |-> FALSE, nonPos |-> FALSE]
    /\ loopPc = "start"

(* ---------------------------------------------------------------------- *)
(* Properties of the order book (SpecBook)                                 *)
(* ---------------------------------------------------------------------- *)
CurBook == Book(bids, asks, last_update_ts)

\* C1: every size stored in bids and in asks is strictly positive.
C1_SizesPositive ==
    /\ \A p \in DOMAIN bids : bids[p] > 0
    /\ \A p \in DOMAIN asks : asks[p] > 0

\* C2: a frame whose application fails leaves bids, asks and the last-update
\* timestamp as they were: no step that ends with the frame rejected changes
\* the book.
C2_AllOrNothing == [][last'.ok = FALSE => UNCHANGED bookVars]_vars

\* the side holds exactly the levels the entries name: the prices of the
\* entries, each with the size of the last entry of that price
ExactSide(side, entries) ==
    /\ DOMAIN side = {ParseNum(entries[i][1]) : i \in 1..Len(entries)}
    /\ \A i \in 1..Len(entries) :
          (\A j \in (i + 1)..Len(entries) : entries[j][1] # entries[i][1])
              => side[ParseNum(entries[i][1])] = ParseNum(entries[i][2])

SnapshotFrames == {f \in BookFrames : f.action = "snapshot" /\ f.hasTs /\ IsNumeric(f.ts)}

\* C7: whatever the book holds, a snapshot frame that is applied leaves bids
\* exactly the levels of its bids and asks exactly the levels of its asks, so
\* that the best bid and the best ask are those of the frame.
C7_SnapshotReplaces ==
    \A f \in SnapshotFrames :
        \A r \in {update_order_book(CurBook, f)} :
            r.ok =>
                /\ ExactSide(r.bids, f.bids)
                /\ ExactSide(r.asks, f.asks)
                /\ \A g \in {extract_features(r.bids, r.asks, r.ts)} :
                      g.kind = "ok" =>
                          /\ g.best_bid = MaxOf({ParseNum(f.bids[i][1]) : i \in 1..Len(f.bids)})
                          /\ g.best_ask = MinOf({ParseNum(f.asks[i][1]) : i \in 1..Len(f.asks)})

\* a snapshot was applied and the book holds exactly its one bid and its
\* one ask, which are the best bid and the best ask
C7_Witness ==
    /\ last.op = "snapshot"
    /\ last.ok
    /\ ExactSide(bids, <<<<"1", "1">>>>)
    /\ ExactSide(asks, <<<<"2", "1">>>>)
    /\ last_update_ts = 1
    /\ extract_features(bids, asks, last_update_ts).best_bid = 1
    /\ extract_features(bids, asks, last_update_ts).best_ask = 2

\* the update frames all of whose entries have size 0
DeleteFrames ==
    {f \in BookFrames :
        /\ f.action = "update" /\ f.hasBids /\ f.hasAsks /\ f.hasTs /\ IsNumeric(f.ts)
        /\ \A i \in 1..Len(f.bids) : f.bids[i][2] = "0"
        /\ \A i \in 1..Len(f.asks) : f.asks[i][2] = "0"}

PricesOf(entries) == {ParseNum(entries[i][1]) : i \in 1..Len(entries)}

\* the side without the levels at the prices
Without(side, prices) == [q \in (DOMAIN side) \ prices |-> side[q]]

\* C8: an update entry of size 0 removes its level when the level is stored
\* (the best level is then the best of the levels left) and leaves the side
\* as it is when the level is not stored; the same delete applied twice
\* leaves the book of the delete applied once.
C8_DeleteIdempotent ==
    \A f \in DeleteFrames :
        \A r \in {update_order_book(CurBook, f)} :
            /\ r.ok
            /\ r.bids = Without(bids, PricesOf(f.bids))
            /\ r.asks = Without(asks, PricesOf(f.asks))
            /\ (PricesOf(f.bids) \cap DOMAIN bids = {}) => r.bids = bids
            /\ (PricesOf(f.asks) \cap DOMAIN asks = {}) => r.asks = asks
            /\ (DOMAIN r.bids # {}) => MaxOf(DOMAIN r.bids) = MaxOf((DOMAIN bids) \ PricesOf(f.bids))
            /\ update_order_book(Book(r.bids, r.asks, r.ts), f) = r

\* an update with an entry of size 0 was applied and a level is left
C8_Witness ==
    /\ last.op = "update"
    /\ last.ok
    /\ last.nonPos
    /\ DOMAIN bids = {1}
    /\ DOMAIN asks = {}

\* C9: a snapshot frame with an entry of size <= 0 is rejected.
C9_SnapshotRejectsNonPositive ==
    (last.op = "snapshot" /\ last.nonPos) => ~last.ok

\* C10: the last-update timestamp never decreases.
C10_TsMonotonic == [][last_update_ts' >= last_update_ts]_vars

(* ---------------------------------------------------------------------- *)
(* Properties of the tick (SpecLoop)                                       *)
(* ---------------------------------------------------------------------- *)
\* C3: the book a tick reads is never the book a frame left when it raised
\* with a part of its changes applied.
C3_TickSeesWholeFrames == tickRead # "partial"

(* ---------------------------------------------------------------------- *)
(* Properties of the broadcast (SpecHub, FairHub)                          *)
(* ---------------------------------------------------------------------- *)
\* C4: when the send of a message to one subscriber failed, the send to
\* every other subscriber of that broadcast whose connection is open is
\* still to run or has delivered the message: none is dropped.
C4_BroadcastIndependent ==
    \A m \in 1..Len(msgs) :
        \A c \in msgs[m].targets :
            (conn[c] = "open" /\ \E d \in msgs[m].targets \ {c} : <<d, m>> \in failed)
                => (<<c, m>> \in sendTasks \/ m \in received[c])

\* the send to one subscriber failed, the await of gather raised, and the
\* other subscriber got the message
C4_Witness ==
    \E m \in 1..Len(msgs) :
        \E c \in msgs[m].targets, d \in msgs[m].targets :
            /\ c # d
            /\ <<d, m>> \in failed
            /\ m \in received[c]
            /\ bcast.msg = m
            /\ bcast.outcome = "raised"

\* C5: a broadcast call in which a send failed completes normally, and the
\* handle whose send failed is out of the subscriber set or about to be
\* removed from it by its handler.
C5_BroadcastCompletes ==
    \A c \in Strategists :
        (<<c, bcast.msg>> \in failed /\ bcast.outcome \notin {"none", "pending"})
            => /\ bcast.outcome = "returned"
               /\ c \notin strategist_clients \/ conn[c] = "closed"

\* C6: while the loop is not stopped, the await of the broadcast ends, also
\* when the send to one subscriber never completes.
C6_TickNotBlocked == [](loopPc = "gather" => <>(loopPc # "gather" \/ ~running))


\* SpecClassify: get_prediction applied to unavailable features and to every
\* book imbalance n / d of bounded depth sums
ClassifierInputs ==
    {NoFeatures("none")}
    \cup {[NoFeatures("ok") EXCEPT !.imbNum = n, !.imbDen = d] :
            n \in -MaxDepth..MaxDepth, d \in 1..MaxDepth}

InitClassify ==
    /\ CoreConstructed
    /\ TradesConstructed
    /\ AgentConstructed
    /\ ConnectorConstructed
    /\ clsIn \in ClassifierInputs
    /\ clsOut = ""

NextClassify == Classify

SpecClassify == InitClassify /\ [][NextClassify]_vars

\* SpecTrade: the trade history under every batch of TradeFrames, sent over
\* one producer connection
NextTrade ==
    \/ \E c \in BookOracles : OracleConnect(c)
    \/ \E c \in BookOracles, f \in TradeFrames : OracleMessage(c, f)
    \/ \E c \in BookOracles : OracleClose(c)

SpecTrade == Init /\ [][NextTrade]_vars

\* SpecAgent: the oracle agent between the exchange connector and the core
NextAgent ==
    \/ HandleExchangeMessage
    \/ AgentConnect
    \/ CoreLinkLost
    \/ ForwardOne
    \/ AgentStop

SpecAgent == Init /\ [][NextAgent]_vars

\* the frames the producer sends in SpecCore: a snapshot, an update that
\* raises at its asks after it added a bid, a message that is no JSON, a
\* message of an unknown channel
IsolationFrames ==
    { BookFrame("snapshot", TRUE, <<<<"1", "1">>>>, TRUE, <<<<"2", "1">>>>, TRUE, "1"),
      BookFrame("update", TRUE, <<<<"2", "1">>>>, TRUE, <<<<"1", BadTok>>>>, TRUE, "2"),
      OtherFrame("badjson"),
      OtherFrame("other") }

\* SpecCore: one producer, one subscriber, the processing loop and the
\* broadcast together
CoreStrategists == {"s1"}

NextCore ==
    \/ \E c \in BookOracles : OracleConnect(c)
    \/ \E c \in BookOracles, f \in IsolationFrames : OracleMessage(c, f)
    \/ \E c \in BookOracles : OracleClose(c)
    \/ \E c \in CoreStrategists : StrategistConnect(c)
    \/ \E c \in CoreStrategists : StrategistHangs(c)
    \/ \E c \in CoreStrategists : StrategistCloses(c)
    \/ \E c \in CoreStrategists : StrategistHandlerExit(c)
    \/ StartLoop
    \/ Tick
    \/ \E c \in CoreStrategists, m \in 1..MaxTicks : SendStep(c, m)
    \/ GatherDone
    \/ Stop
    \/ Teardown

SpecCore == Init /\ [][NextCore]_vars

\* the frames the producers send in SpecProducers: two snapshots, an update
\* that deletes a bid, a batch of one trade
ProducerFrames ==
    { BookFrame("snapshot", TRUE, <<<<"1", "1">>>>, TRUE, <<<<"2", "1">>>>, TRUE, "1"),
      BookFrame("snapshot", TRUE, <<<<"2", "1">>>>, TRUE, <<>>, TRUE, "2"),
      BookFrame("update", TRUE, <<<<"1", "0">>>>, TRUE, <<>>, TRUE, "2"),
      TradeFrame(<<<<"1", "1", "1", "buy">>>>) }

\* SpecProducers: two producer connections that connect, send and close at
\* will
NextProducers ==
    \/ \E c \in Oracles : OracleConnect(c)
    \/ \E c \in Oracles, f \in ProducerFrames : OracleMessage(c, f)
    \/ \E c \in Oracles : OracleClose(c)

SpecProducers == Init /\ [][NextProducers]_vars

\* SpecConnector: the exchange connector of the agent, its callback filling
\* the agent's queue
NextConnector ==
    \/ ConnectorStart
    \/ ConnectorConnect
    \/ ConnectorConnectFails
    \/ ExchangeLinkLost
    \/ ConnectorSubscribe
    \/ ConnectorDeliver
    \/ ConnectorLossSeen
    \/ ConnectorWake
    \/ ConnectorStop

SpecConnector == Init /\ [][NextConnector]_vars

\* the event loop runs the task of _run whenever it is ready; the exchange,
\* the network, start() and stop() are the environment
FairConnector ==
    /\ SpecConnector
    /\ WF_vars(ConnectorSubscribe)
    /\ WF_vars(ConnectorLossSeen)
    /\ WF_vars(ConnectorWake)

(* ---------------------------------------------------------------------- *)
(* Features, classifier, trade history                                     *)
(* ---------------------------------------------------------------------- *)
\* C11: a tick broadcasts exactly when features are available: a tick that
\* finds the bids or the asks empty hands nothing to the broadcast, a tick
\* that finds a level on both sides hands one message to it
C11_BroadcastIffFeatures ==
    tickOut.kind # "none" =>
        /\ tickOut.both => tickOut.kind = "handed"
        /\ ~tickOut.both => tickOut.kind = "skip"

\* C12: for every book with a level on both sides extract_features returns
\* a feature vector, and its weighted average price is the mid price when
\* the sizes at the best bid and the best ask sum to zero
C12_WapFallsBack ==
    (DOMAIN bids # {} /\ DOMAIN asks # {}) =>
        \A f \in {extract_features(bids, asks, last_update_ts)} :
            /\ f.kind = "ok"
            /\ bids[f.best_bid] + asks[f.best_ask] = 0 => 2 * f.wapNum = f.midNum * f.wapDen

\* C13: for every book the frames can build, the book imbalance of the
\* features lies in [-1, 1], and it is 0 when the depth of the best
\* DepthLevels bids and the depth of the best DepthLevels asks are both zero
C13_ImbalanceInRange ==
    \A f \in {extract_features(bids, asks, last_update_ts)} :
        f.kind = "ok" =>
            /\ -f.imbDen <= f.imbNum /\ f.imbNum <= f.imbDen
            /\ (DepthOf(bids, DepthLevels, TRUE) = 0 /\ DepthOf(asks, DepthLevels, FALSE) = 0)
                   => f.imbNum = 0

\* C14: the classifier partitions its inputs three ways with exclusive
\* boundaries: BUY exactly above the threshold, SELL exactly below its
\* negation, HOLD otherwise, at equality and for unavailable features too
C14_ThreeWayPartition ==
    clsOut # "" =>
        LET above == clsIn.kind = "ok"
                     /\ clsIn.imbNum * ThresholdDen > ThresholdNum * clsIn.imbDen
            below == clsIn.kind = "ok"
                     /\ clsIn.imbNum * ThresholdDen < -(ThresholdNum * clsIn.imbDen)
        IN  /\ clsOut = "BUY" <=> above
            /\ clsOut = "SELL" <=> below
            /\ clsOut = "HOLD" <=> (~above /\ ~below)

\* the imbalance equals the threshold and the signal is HOLD
C14_Witness ==
    /\ clsOut = "HOLD"
    /\ clsIn.kind = "ok"
    /\ clsIn.imbNum * ThresholdDen = ThresholdNum * clsIn.imbDen

\* the last n elements of a sequence
LastN(s, n) == SubSeq(s, Len(s) - n + 1, Len(s))

\* C15: the trade history is bounded: after any sequence of trade batches
\* it holds at most MaxTrades trades, and they are the most recent
\* min(MaxTrades, appended) trades in the order they arrived
C15_HistoryBounded ==
    /\ Len(trades) <= MaxTrades
    /\ trades = LastN(appended, IF Len(appended) < MaxTrades THEN Len(appended) ELSE MaxTrades)

\* more trades were appended than the history holds, the last of them by a
\* batch that raised after it
C15_Witness ==
    /\ Len(appended) > MaxTrades
    /\ Len(trades) = MaxTrades
    /\ trades[MaxTrades] = appended[Len(appended)]
    /\ ~last.ok


(* ---------------------------------------------------------------------- *)
(* Oracle agent                                                            *)
(* ---------------------------------------------------------------------- *)
\* the messages of the exchange still on the queue
Waiting == SelectSeq(data_queue, LAMBDA m : m # NoneMsg)

\* C16: the agent drops no message: every message handle_exchange_message
\* queued has been sent to the core or waits on the queue, in the order of
\* arrival, also when the connection to the core is lost and made again
C16_NothingDropped == forwarded \o Waiting = [i \in 1..produced |-> i]


(* ---------------------------------------------------------------------- *)
(* Shutdown, isolation of failures, the subscriber set                     *)
(* ---------------------------------------------------------------------- *)
\* C17: after stop() the processing loop eventually halts and every
\* producer and subscriber connection is closed: both sets end up empty
C17_StopHaltsAndCloses ==
    ~running ~> (/\ loopPc \in {"done", "exited"}
                 /\ oracle_clients = {}
                 /\ strategist_clients = {}
                 /\ \A c \in Strategists : conn[c] \in {"absent", "gone"})

\* C18: a frame that is rejected (no JSON, an unknown channel, or raising
\* while it is applied) costs the producer nothing but that frame: its
\* connection stays in oracle_clients, where its later frames are applied,
\* and no subscriber receives a message derived from the rejected frame
C18_RejectedFrameIsolated ==
    /\ [][(last' # last \/ bookVars' # bookVars) => oracle_clients' = oracle_clients]_vars
    /\ [](\A c \in Strategists : \A m \in received[c] : ~msgs[m].fromPartial)

\* C19: the loop ends only on shutdown: it is done only after stop(), and
\* as long as stop() is not called the loop comes back to the sleep before
\* its next tick, whatever happened in the tick before
C19_LoopEndsOnlyOnStop ==
    /\ [](loopPc \in {"done", "exited"} => ~running)
    /\ [](running => <>(loopPc = "sleep" \/ ~running))

\* C20: strategist_clients is exactly the set of subscriber connections
\* whose handler has started and not finished: a connection enters the set
\* when it connects and leaves it when its handler ends (so the remove finds
\* it), and nothing else changes the set, whatever the ticks and the
\* broadcasts do in between
C20_SubscriberSetExact ==
    /\ [](strategist_clients = {c \in Strategists : conn[c] \in {"open", "closed"}})
    /\ [][\A c \in Strategists :
            /\ (c \in strategist_clients' /\ c \notin strategist_clients)
                   => (conn[c] = "absent" /\ conn'[c] = "open")
            /\ (c \in strategist_clients /\ c \notin strategist_clients')
                   => (conn[c] # "gone" /\ conn'[c] = "gone")]_vars

\* one handler has ended and removed its connection after a send to it
\* failed, the other subscriber is still in the set
C20_Witness ==
    /\ conn["s1"] = "gone"
    /\ \E m \in 1..MaxTicks : <<"s1", m>> \in failed
    /\ strategist_clients = {"s2"}
    /\ loopPc # "exited"


(* ---------------------------------------------------------------------- *)
(* Producer loss, the tick after stop(), the exchange connector            *)
(* ---------------------------------------------------------------------- *)
\* C21: the loss of a producer connection resets nothing: the step in which
\* a producer leaves oracle_clients leaves the bids, the asks, the last
\* update timestamp and the trade history as they were and takes no other
\* producer out of the set; the state changes only when a connected
\* producer's frame is handled
C21_LossKeepsState ==
    /\ [][\A c \in Oracles :
            (c \in oracle_clients /\ c \notin oracle_clients')
                => /\ UNCHANGED <<bids, asks, last_update_ts, trades, last_trade_ts>>
                   /\ oracle_clients' = oracle_clients \ {c}]_vars
    /\ [][(<<bids, asks, last_update_ts, trades>>' # <<bids, asks, last_update_ts, trades>>)
            => (oracle_clients' = oracle_clients /\ oracle_clients # {})]_vars

\* every producer that delivered the book and the trades has gone, the book
\* and the trades are still there
C21_Witness ==
    /\ oracle_clients = {}
    /\ DOMAIN bids # {}
    /\ DOMAIN asks # {}
    /\ last_update_ts # NoneTs
    /\ trades # <<>>

\* C22: after stop() the loop runs at most one further tick, the one whose
\* sleep stop() found it in, and so hands at most one further message to
\* the broadcast; the loop is done once that tick has ended
C22_OneTickAfterStop ==
    /\ tickOut.afterStop <= 1
    /\ (tickOut.afterStop = 1 /\ loopPc # "gather") => loopPc \in {"done", "exited"}

\* stop() came during the sleep, the tick that followed broadcast its
\* message and the loop is done
C22_Witness ==
    /\ tickOut.afterStop = 1
    /\ tickOut.kind = "handed"
    /\ Len(msgs) = 1
    /\ bcast.outcome = "returned"
    /\ loopPc = "done"

\* C23: on every connection to the exchange the subscription is sent before
\* a message is passed to the callback, and while the connector runs every
\* loss of the connection is followed by a new call of websockets.connect
C23_SubscribeFirstAndReconnect ==
    /\ [](gotOnLink => subSent)
    /\ [][produced' # produced => (subSent /\ exLink = "up")]_vars
    /\ []((exLink = "lost" /\ is_running) => <>(connPc = "connect" \/ ~is_running))

\* the connector is on its second connection, has subscribed on it and has
\* passed a message of it to the callback
C23_Witness ==
    /\ connects = 2
    /\ exLink = "up"
    /\ subSent
    /\ gotOnLink
    /\ is_running

====
